---------------------------- MODULE Spec2Model ----------------------------
(***************************************************************************)
(* A model of bix, a pure-go tabix/CSI query engine.                       *)
(*                                                                         *)
(* Byte strings are sequences of one-character strings, so that splitting, *)
(* trimming, prefix tests, substring search and number parsing are         *)
(* computed the way the go code computes them.                             *)
(***************************************************************************)
EXTENDS Integers, Sequences, FiniteSets, TLC

VARIABLES
    line,       \* classifier specifications: the raw line handed to inBounds
    region,     \* classifier specifications: the query region
    desc,       \* classifier specifications: the handle (descriptor, VReader)
    origin,     \* classifier specifications: the values the line was written from
    verdict,    \* classifier specifications: what inBounds returned, or NoVerdict
    file,       \* the data file: header lines, then coordinate-sorted data lines
    tbx,        \* the open handle: index, descriptor, VReader, sniffed ref/alt
    rd,         \* the os.File and bgzf.Reader of each Bix value: open, offset
    its,        \* the iterators returned by Query, one slot per query
    hist,       \* per slot, what its calls returned so far
    resolved    \* chunk-resolution specification: the two lookups' results

classVars == <<line, region, desc, origin, verdict>>

iterVars == <<file, tbx, rd, its, hist>>

vars == <<line, region, desc, origin, verdict, file, tbx, rd, its, hist, resolved>>

-----------------------------------------------------------------------------
(* Bounds of the model.                                                    *)

\* largest coordinate written in a generated line or query
MaxPos == 4

\* largest number of data lines of a generated file
MaxLines == 3

\* largest skip-line count and largest number of meta-character lines
MaxHeader == 2

\* number of iterators that can be live on one handle
MaxIters == 2

-----------------------------------------------------------------------------
(* Byte strings.                                                           *)

TAB == "\t"
NL == "\n"
CR == "\r"

Digits == <<"0", "1", "2", "3", "4", "5", "6", "7", "8", "9">>

\* go's s[lo:hi] on a 0-based byte string (callers guarantee lo <= hi)
Slice(s, lo, hi) == SubSeq(s, lo + 1, hi)

\* go's s[lo:]
SliceFrom(s, lo) == SubSeq(s, lo + 1, Len(s))

\* strings.HasPrefix
HasPrefix(s, p) == Len(s) >= Len(p) /\ SubSeq(s, 1, Len(p)) = p

\* strings.Index / bytes.Index: 0-based offset of the first occurrence, or -1
Index(s, sub) ==
    LET hits == {i \in 0..(Len(s) - Len(sub)) : SubSeq(s, i + 1, i + Len(sub)) = sub}
    IN IF hits = {} THEN -1 ELSE CHOOSE i \in hits : \A j \in hits : i <= j

RECURSIVE TrimRight(_)
\* bytes.TrimRight(line, "\r\n")
TrimRight(s) ==
    IF Len(s) > 0 /\ s[Len(s)] \in {CR, NL}
    THEN TrimRight(SubSeq(s, 1, Len(s) - 1))
    ELSE s

RECURSIVE Split(_, _)
\* bytes.Split / strings.Split on a one-byte separator
Split(s, sep) ==
    LET i == Index(s, <<sep>>)
    IN IF i = -1 THEN <<s>>
       ELSE <<Slice(s, 0, i)>> \o Split(SliceFrom(s, i + 1), sep)

RECURSIVE SplitN(_, _, _)
\* bytes.SplitN with n > 0: at most n pieces, the last one unsplit
SplitN(s, sep, n) ==
    LET i == Index(s, <<sep>>)
    IN IF n <= 1 \/ i = -1 THEN <<s>>
       ELSE <<Slice(s, 0, i)>> \o SplitN(SliceFrom(s, i + 1), sep, n - 1)

RECURSIVE DigitsVal(_)
DigitsVal(s) ==
    IF Len(s) = 0 THEN 0
    ELSE 10 * DigitsVal(SubSeq(s, 1, Len(s) - 1)) + ((CHOOSE i \in 1..10 : Digits[i] = s[Len(s)]) - 1)

AllDigits(s) == Len(s) > 0 /\ \A i \in 1..Len(s) : \E d \in 1..10 : Digits[d] = s[i]

\* strconv.Atoi: optional sign, then one or more decimal digits
Atoi(s) ==
    IF Len(s) > 0 /\ s[1] \in {"-", "+"}
    THEN IF AllDigits(Tail(s))
         THEN [err |-> FALSE,
               val |-> IF s[1] = "-" THEN 0 - DigitsVal(Tail(s)) ELSE DigitsVal(Tail(s))]
         ELSE [err |-> TRUE, val |-> 0]
    ELSE IF AllDigits(s)
         THEN [err |-> FALSE, val |-> DigitsVal(s)]
         ELSE [err |-> TRUE, val |-> 0]

RECURSIVE Itoa(_)
\* the decimal text of a natural number, as written in a data file
Itoa(n) ==
    IF n < 10 THEN <<Digits[n + 1]>>
    ELSE Itoa(n \div 10) \o <<Digits[(n % 10) + 1]>>

RECURSIVE Join(_, _)
\* the fields of a line joined by a separator string
Join(fs, sep) ==
    IF Len(fs) = 0 THEN <<>>
    ELSE IF Len(fs) = 1 THEN fs[1]
    ELSE fs[1] \o sep \o Join(Tail(fs), sep)

-----------------------------------------------------------------------------
(* The line classifier: bixerator.inBounds and makeFields of bix.go.       *)

\* string literals of the classifier
S_CN0 == <<"<", "C", "N", "0", ">">>
S_DEL == <<"<", "D", "E", "L">>
S_DUP == <<"<", "D", "U", "P">>
S_INV == <<"<", "I", "N", "V">>
S_CN == <<"<", "C", "N">>
S_END == <<";", "E", "N", "D", "=">>

\* the error values a classification or an advance can end with
ErrNil == "nil"
ErrEOF == "EOF"
ErrSyntax == "syntax"
ErrPanic == "panic"

\* what inBounds returns: (in, err, toks); a runtime panic is recorded as ErrPanic
Ret(in, err, toks) == [in |-> in, err |-> err, toks |-> toks]

RECURSIVE SumLen(_, _)
\* the running offset s of makeFields: sum of len(f)+1 over the first n fields
SumLen(fs, n) == IF n = 0 THEN 0 ELSE SumLen(fs, n - 1) + Len(fs[n]) + 1

\* makeFields: seven leading columns, the annotation column cut at the next
\* tab, and everything after it merged into one trailing token
makeFields(ln) ==
    LET cut(fields, s, e) ==
            [panic |-> FALSE,
             toks |-> IF Len(ln) > e + 1
                      THEN [fields EXCEPT ![8] = Slice(ln, s, e)] \o <<SliceFrom(ln, e + 1)>>
                      ELSE [fields EXCEPT ![8] = Slice(ln, s, e)]]
        find(fields, s, k) == cut(fields, s, IF k = -1 THEN Len(ln) ELSE k + s)
        from(fields, s) ==
            IF s > Len(ln) THEN [panic |-> TRUE, toks |-> <<>>]
            ELSE find(fields, s, Index(SliceFrom(ln, s), <<TAB>>))
        pad(parts) == [i \in 1..8 |-> IF i <= Len(parts) THEN parts[i] ELSE <<>>]
        sum(fields) == from(fields, SumLen(fields, 7))
    IN sum(pad(SplitN(ln, TAB, 8)))

\* pos := s, whatever the coordinate base
normalize_raw(h, s) == s

\* pos := s; if !ZeroBased { pos -= 1 }
normalize(h, s) == IF h.ZeroBased THEN s ELSE s - 1

\* the early-stop test: pos >= region.End()
pastEnd_gt(pos, reg) == pos > reg.end

pastEnd(pos, reg) == pos >= reg.end

\* the explicit-end skip test: e < region.Start()
endBeforeStart_le(e, reg) == e <= reg.start

endBeforeStart(e, reg) == e < reg.start

\* the symbolic kinds whose extent is read from the annotation field
isExtentKind(a) ==
    HasPrefix(a, S_DEL) \/ HasPrefix(a, S_DUP) \/ HasPrefix(a, S_INV) \/ HasPrefix(a, S_CN)

\* an allele without an END= key fails the query
noEnd_fail(rest) == "syntax"

\* an allele without an END= key is logged and the loop goes on with the
\* remaining alleles
noEnd(rest) == rest

RECURSIVE scanAlleles(_, _, _, _, _)
\* the loop over the alternate alleles; "in", "skip", "syntax" or "panic"
scanAlleles(alt, pos, lref, start, info) ==
    IF alt = <<>> THEN "skip"
    ELSE LET a == Head(alt)
             rest == scanAlleles(Tail(alt), pos, lref, start, info)
         IN IF Len(a) = 0 THEN "panic"
            ELSE IF a[1] # "<" \/ a = S_CN0
            THEN IF pos + lref > start THEN "in" ELSE rest
            ELSE IF isExtentKind(a)
            THEN LET idx == Index(info, S_END)
                 IN IF idx # -1
                    THEN LET k == Index(SliceFrom(info, idx + 5), <<";">>)
                         IN IF k = -1 THEN "panic"
                            ELSE LET e == Atoi(Slice(info, idx + 5, idx + 5 + k))
                                 IN IF e.err THEN "syntax"
                                    ELSE IF e.val > start THEN "in" ELSE rest
                    ELSE noEnd(rest)
            ELSE rest

\* the variant-extent branch with the reference span closed at its end
variantExtent_closed(reg, pos, toks) ==
    LET alt == Split(toks[5], ",")
        lref == Len(toks[4])
    IN IF reg.start > pos + lref
       THEN LET r == scanAlleles(alt, pos, lref, reg.start, toks[8])
            IN IF r = "in" THEN Ret(TRUE, ErrNil, toks)
               ELSE IF r = "skip" THEN Ret(FALSE, ErrNil, toks)
               ELSE IF r = "syntax" THEN Ret(FALSE, ErrSyntax, toks)
               ELSE Ret(FALSE, ErrPanic, toks)
       ELSE Ret(TRUE, ErrNil, toks)

\* the variant-extent branch (EndColumn = 0 and a VReader is attached)
variantExtent(reg, pos, toks) ==
    LET alt == Split(toks[5], ",")
        lref == Len(toks[4])
    IN IF reg.start >= pos + lref
       THEN LET r == scanAlleles(alt, pos, lref, reg.start, toks[8])
            IN IF r = "in" THEN Ret(TRUE, ErrNil, toks)
               ELSE IF r = "skip" THEN Ret(FALSE, ErrNil, toks)
               ELSE IF r = "syntax" THEN Ret(FALSE, ErrSyntax, toks)
               ELSE Ret(FALSE, ErrPanic, toks)
       ELSE Ret(TRUE, ErrNil, toks)

\* toks[col-1] exists
hasColumn(toks, col) == col >= 1 /\ col <= Len(toks)

\* bixerator.inBounds
inBounds(h, reg, ln0) ==
    LET withEnd(toks, e) ==
            IF e.err THEN Ret(FALSE, ErrSyntax, toks)
            ELSE IF endBeforeStart(e.val, reg) THEN Ret(FALSE, ErrNil, toks)
            ELSE Ret(TRUE, ErrNil, toks)
        at(toks, pos) ==
            IF pastEnd(pos, reg) THEN Ret(FALSE, ErrEOF, toks)
            ELSE IF h.EndColumn # 0
            THEN IF ~hasColumn(toks, h.EndColumn) THEN Ret(FALSE, ErrPanic, toks)
                 ELSE withEnd(toks, Atoi(toks[h.EndColumn]))
            ELSE IF h.VReader THEN variantExtent(reg, pos, toks)
            ELSE Ret(FALSE, ErrNil, toks)
        withBegin(toks, s) ==
            IF s.err THEN Ret(FALSE, ErrSyntax, toks) ELSE at(toks, normalize(h, s.val))
        classify(toks) ==
            IF ~hasColumn(toks, h.BeginColumn) THEN Ret(FALSE, ErrPanic, toks)
            ELSE withBegin(toks, Atoi(toks[h.BeginColumn]))
        fields(mf) ==
            IF mf.panic THEN Ret(FALSE, ErrPanic, <<>>) ELSE classify(mf.toks)
        trimmed(ln) ==
            IF h.VReader THEN fields(makeFields(ln)) ELSE classify(Split(ln, TAB))
    IN trimmed(TrimRight(ln0))

\* the three classes of the classifier
OVERLAP == "OVERLAP"
SKIP == "SKIP"
STOP == "STOP"

\* the class a return value of inBounds stands for in Next; "ERROR" otherwise
classOf(r) ==
    IF r.in THEN OVERLAP
    ELSE IF r.err = ErrEOF THEN STOP
    ELSE IF r.err = ErrNil THEN SKIP
    ELSE "ERROR"

-----------------------------------------------------------------------------
(* Generated inputs of the classifier specifications.                      *)

NoVerdict == [in |-> FALSE, err |-> "none", toks |-> <<>>]

\* no lookup was made
NoLookup ==
    [plain |-> [err |-> "none", chunks |-> <<>>, records |-> <<>>],
     prefixed |-> [err |-> "none", chunks |-> <<>>, records |-> <<>>]]

\* the iterator variables of a specification that opens no file
IdleIterators ==
    /\ file = <<>>
    /\ tbx = [kind |-> "none"]
    /\ rd = <<>>
    /\ its = <<>>
    /\ hist = <<>>
    /\ resolved = NoLookup

\* a handle as the classifier sees it: the descriptor's columns and the VReader
Handle(begin, end, zero, vreader) ==
    [NameColumn |-> 1, BeginColumn |-> begin, EndColumn |-> end,
     ZeroBased |-> zero, VReader |-> vreader]

\* descriptors with an explicit end column: chrom,begin,end and chrom,pos
ExplicitDescs ==
    {Handle(2, e, z, FALSE) : e \in {2, 3}, z \in BOOLEAN}

\* non-empty query regions on chromosome 1
Regions ==
    {r \in [chrom : {<<"1">>}, start : 0..MaxPos, end : 1..(MaxPos + 1)] :
        r.start < r.end}

\* the shapes of a well-formed line of a file described by d: begin <= end,
\* begin >= 1 when coordinates are 1-based, with or without a name column
\* after the end column, terminated by nothing or by a carriage return
ExplicitParams(d) ==
    {p \in [b : 0..MaxPos, e : 0..MaxPos, named : BOOLEAN, cr : BOOLEAN] :
        /\ p.b <= p.e
        /\ (~d.ZeroBased => p.b >= 1)
        /\ (d.EndColumn = d.BeginColumn => p.e = p.b)}

\* the text of such a line
ExplicitText(d, p) ==
    Join(<<<<"1">>, Itoa(p.b)>>
         \o (IF d.EndColumn = d.BeginColumn THEN <<>> ELSE <<Itoa(p.e)>>)
         \o (IF p.named THEN <<<<"a">>>> ELSE <<>>), <<TAB>>)
    \o (IF p.cr THEN <<CR>> ELSE <<>>)

InitClassify ==
    /\ desc \in ExplicitDescs
    /\ region \in Regions
    /\ origin \in ExplicitParams(desc)
    /\ line = ExplicitText(desc, origin)
    /\ verdict = NoVerdict
    /\ IdleIterators

\* one call of inBounds on the line
Classify ==
    /\ verdict = NoVerdict
    /\ verdict' = inBounds(desc, region, line)
    /\ UNCHANGED <<line, region, desc, origin>>
    /\ UNCHANGED iterVars
    /\ UNCHANGED resolved

SpecClassify == InitClassify /\ [][Classify]_vars

\* the brute-force reference: STOP when the line starts at or after the
\* region's end, OVERLAP when some coordinate lies in both [pos,end] and
\* [qstart,qend), SKIP otherwise
BruteClass(pos, end, reg) ==
    IF pos >= reg.end THEN STOP
    ELSE IF \E x \in (0 - 1)..(MaxPos + 2) :
                pos <= x /\ x <= end /\ reg.start <= x /\ x < reg.end
    THEN OVERLAP
    ELSE SKIP

\* the normalized begin of a generated explicit-end line
RefPos(d, p) == IF d.ZeroBased THEN p.b ELSE p.b - 1

\* C2: with an explicit end column, inBounds agrees with the brute-force
\* reference on every line and region: OVERLAP iff pos < qend and
\* parsedEnd >= qstart, STOP iff pos >= qend, SKIP otherwise.
C2_ExplicitEndMatchesBruteForce ==
    (verdict # NoVerdict /\ desc.EndColumn # 0 /\ ~desc.VReader) =>
        LET p == origin
            pos == RefPos(desc, p)
        IN /\ classOf(verdict) = BruteClass(pos, p.e, region)
           /\ (classOf(verdict) = OVERLAP) = (pos < region.end /\ p.e >= region.start)
           /\ (classOf(verdict) = STOP) = (pos >= region.end)
           /\ classOf(verdict) \in {OVERLAP, SKIP, STOP}

\* C2 witness: a line whose end equals the region's start was classified OVERLAP
C2_Witness ==
    /\ verdict # NoVerdict
    /\ desc.EndColumn # 0
    /\ ~desc.VReader
    /\ classOf(verdict) = OVERLAP
    /\ origin.e = region.start

-----------------------------------------------------------------------------
(* Variant-extent mode: generated variant-call lines.                      *)

\* the descriptor of a variant-call file: 1-based position column, no end column
VariantDesc == Handle(2, 0, FALSE, TRUE)

\* query regions of the variant specification
VariantRegions ==
    {[chrom |-> <<"1">>, start |-> r[1], end |-> r[2]] :
        r \in {<<0, 1>>, <<1, 2>>, <<2, 3>>, <<3, 4>>, <<3, 6>>, <<4, 6>>,
               <<1500, 1600>>, <<2500, 2600>>}}

\* the annotation field of a shape: where the END= key sits among the keys
InfoText(shape, n) ==
    LET e == <<"E", "N", "D", "=">> \o Itoa(n)
        ac == <<"A", "C", "=", "1">>
    IN IF shape = "first" THEN e \o <<";">> \o ac
       ELSE IF shape = "middle" THEN ac \o <<";">> \o e \o <<";">> \o <<"A", "F", "=", "2">>
       ELSE IF shape = "last" THEN ac \o <<";">> \o e
       ELSE IF shape = "only" THEN e
       ELSE ac

\* generated variant-call lines: 1-based position, reference allele,
\* alternate-allele list, place of the END= key and its value, genotype columns
VariantParams ==
    {p \in [pos : {1, 2, 1000},
            ref : {<<"A">>, <<"A", "C">>},
            alt : {<<<<"<", "D", "E", "L", ">">>>>, <<<<"<", "D", "U", "P", ">">>>>,
                   <<<<"C">>, <<"<", "I", "N", "V", ">">>>>, <<<<"<", "C", "N", "2", ">">>>>,
                   <<<<"C">>>>, <<S_CN0>>, <<<<"<", "I", "N", "S", ">">>>>},
            shape : {"first", "middle", "last", "only", "none"},
            n : {3, 4, 2000}, samples : BOOLEAN] :
        p.shape = "none" => p.n = 3}

\* the text of a variant-call line: eight fixed columns and optional
\* genotype columns
VariantText(p) ==
    Join(<<<<"1">>, Itoa(p.pos), <<".">>, p.ref, Join(p.alt, <<",">>),
           <<".">>, <<".">>, InfoText(p.shape, p.n)>>
         \o (IF p.samples THEN <<<<"G", "T">>, <<"G", "T">>>> ELSE <<>>), <<TAB>>)

InitVariant ==
    /\ desc = VariantDesc
    /\ region \in VariantRegions
    /\ origin \in VariantParams
    /\ line = VariantText(origin)
    /\ verdict = NoVerdict
    /\ IdleIterators

SpecVariant == InitVariant /\ [][Classify]_vars

\* an allele of a kind whose extent comes from END= (the zero-copy-number
\* allele is read as a literal one)
IsExtentAllele(a) ==
    /\ a # S_CN0
    /\ \E k \in {S_DEL, S_DUP, S_INV, S_CN} : HasPrefix(a, k)

\* C3: in variant-extent mode, a line with pos < qend and qstart >= pos+refLen
\* that has a DEL/DUP/INV/CN allele and an END=N key is OVERLAP iff N > qstart,
\* wherever the key sits in the annotation field.
C3_EndKeyAnywhere ==
    (verdict # NoVerdict /\ desc = VariantDesc) =>
        LET p == origin
            pos == p.pos - 1
        IN (/\ pos < region.end
            /\ region.start >= pos + Len(p.ref)
            /\ \E i \in 1..Len(p.alt) : IsExtentAllele(p.alt[i])
            /\ p.shape # "none")
           => ((classOf(verdict) = OVERLAP) = (p.n > region.start))

\* C15: in variant-extent mode, a line with pos < qend that has a DEL/DUP/INV/CN
\* allele and no END= key is classified without an error: the allele adds no
\* extent and the remaining alleles are evaluated, so the line is OVERLAP when
\* qstart < pos + refLen and SKIP otherwise (no allele of such a line reaches
\* past pos + refLen).
C15_MissingEndKeyIsNoError ==
    (verdict # NoVerdict /\ desc = VariantDesc) =>
        LET p == origin
            pos == p.pos - 1
        IN (/\ pos < region.end
            /\ \E i \in 1..Len(p.alt) : IsExtentAllele(p.alt[i])
            /\ p.shape = "none")
           => /\ verdict.err = ErrNil
              /\ classOf(verdict) \in {OVERLAP, SKIP}
              /\ (classOf(verdict) = OVERLAP) = (region.start < pos + Len(p.ref))

\* C15 witness: a line that follows a literal allele by a symbolic one
\* without an END= key, lying before the region, was classified SKIP
C15_Witness ==
    /\ verdict # NoVerdict
    /\ desc = VariantDesc
    /\ origin.shape = "none"
    /\ Len(origin.alt) = 2
    /\ IsExtentAllele(origin.alt[2])
    /\ region.start >= origin.pos - 1 + Len(origin.ref)
    /\ origin.pos - 1 < region.end
    /\ classOf(verdict) = SKIP

\* C16: in variant-extent mode a line with pos < qend and qstart < pos + refLen
\* is OVERLAP whatever its alleles are; a line without a DEL/DUP/INV/CN allele
\* (literal alleles, <CN0>, other symbolic kinds) is OVERLAP iff pos < qend and
\* qstart < pos + refLen, STOP iff pos >= qend and SKIP otherwise.
C16_ReferenceSpanDecides ==
    (verdict # NoVerdict /\ desc = VariantDesc) =>
        LET p == origin
            pos == p.pos - 1
            span == pos < region.end /\ region.start < pos + Len(p.ref)
        IN /\ span => classOf(verdict) = OVERLAP
           /\ (\A i \in 1..Len(p.alt) : ~IsExtentAllele(p.alt[i])) =>
                 /\ (classOf(verdict) = OVERLAP) = span
                 /\ (classOf(verdict) = STOP) = (pos >= region.end)
                 /\ (classOf(verdict) = SKIP) = (pos < region.end /\ ~span)

\* C16 witness: a literal allele on a two-base reference, queried from the
\* second base of the reference, was classified OVERLAP
C16_Witness ==
    /\ verdict # NoVerdict
    /\ desc = VariantDesc
    /\ origin.alt = <<<<"C">>>>
    /\ Len(origin.ref) = 2
    /\ region.start = origin.pos
    /\ classOf(verdict) = OVERLAP

-----------------------------------------------------------------------------
(* The data file and the index.  A file is a sequence of lines; a line is  *)
(* kept with the values it was written from (chrom, b, e), which is what   *)
(* the indexer saw.  File offsets are line numbers: a chunk [b, e) holds   *)
(* the lines b .. e-1.                                                     *)

\* width of one tile of the linear index (16384 bases in the file format)
TileWidth == 2

S_chr == <<"c", "h", "r">>

\* stripChr: removes the "chr" prefix if it is present
stripChr(c) == IF HasPrefix(c, S_chr) THEN SliceFrom(c, 3) ELSE c

\* the same spelling again: a lookup that never tries the other one
toggleChr_same(c) == c

\* the other spelling tried by ChunkedReader: strip "chr" if present, else prepend
toggleChr(c) == IF HasPrefix(c, S_chr) THEN SliceFrom(c, 3) ELSE S_chr \o c

\* errors of the index lookup
ErrNoReference == "ErrNoReference"
ErrInvalid == "ErrInvalid"
ErrOther == "ErrOther"

\* offsets of the data lines of reference name
RefLines(f, name) ==
    {i \in 1..Len(f) : f[i].kind = "data" /\ f[i].chrom = name}

\* the start the indexer recorded for a line
IdxStart(h, l) == IF h.ZeroBased THEN l.b ELSE l.b - 1

Max(S) == CHOOSE x \in S : \A y \in S : y <= x

Min(S) == CHOOSE x \in S : \A y \in S : x <= y

\* number of tiles the linear index of a reference has
NumTiles(h, f, name) ==
    IF RefLines(f, name) = {} THEN 0
    ELSE (Max({f[i].e : i \in RefLines(f, name)}) \div TileWidth) + 1

\* lines of the reference that reach into the tiles the region touches
Covered(h, f, name, start, end) ==
    LET lo == (start \div TileWidth) * TileWidth
        hi == (((end - 1) \div TileWidth) + 1) * TileWidth
    IN {i \in RefLines(f, name) : IdxStart(h, f[i]) < hi /\ f[i].e >= lo}

RECURSIVE Runs(_, _)
\* the maximal runs of consecutive offsets of a set, from offset i on, as chunks
Runs(S, i) ==
    IF S = {} THEN <<>>
    ELSE LET b == Min(S)
             e == CHOOSE k \in (b + 1)..(Max(S) + 1) :
                      /\ k \notin S
                      /\ \A j \in b..(k - 1) : j \in S
         IN <<[b |-> b, e |-> e]>> \o Runs({j \in S : j >= e}, e)

\* the chunk lookup of the index library for a reference id (1-based here):
\* ErrInvalid when the region starts beyond the last tile of the reference
libChunks(h, f, rid, start, end) ==
    LET name == h.names[rid]
    IN IF start >= end \/ (start \div TileWidth) >= NumTiles(h, f, name)
       THEN [err |-> ErrInvalid, chunks |-> <<>>]
       ELSE [err |-> ErrNil, chunks |-> Runs(Covered(h, f, name, start, end), 1)]

\* position of a name in a list of names, 0 when absent
NameIndex(names, c) ==
    IF \E i \in 1..Len(names) : names[i] = c
    THEN Min({i \in 1..Len(names) : names[i] = c})
    ELSE 0

\* tIndex.Chunks: the tabix index looks the name up as given
tabixChunks(h, f, chrom, start, end) ==
    LET rid == NameIndex(h.names, chrom)
    IN IF rid = 0 THEN [err |-> ErrNoReference, chunks |-> <<>>]
       ELSE libChunks(h, f, rid, start, end)

\* cIndex.Chunks: names are compared with their "chr" prefix stripped; an
\* unknown name is handed to the library as reference id -1 and no error is
\* ever returned.  neg is what the library does with that id: "panic" or "empty".
csiChunks(h, f, chrom, start, end, neg) ==
    LET stripped == [i \in 1..Len(h.names) |-> stripChr(h.names[i])]
        rid == NameIndex(stripped, stripChr(chrom))
    IN IF rid = 0
       THEN [err |-> IF neg = "panic" THEN ErrPanic ELSE ErrNil, chunks |-> <<>>]
       ELSE [err |-> ErrNil, chunks |-> libChunks(h, f, rid, start, end).chunks]

\* Index.Chunks; fault "index" is a failure of the lookup other than the two
\* distinguished ones
Chunks(h, f, chrom, start, end, fault, neg) ==
    IF fault = "index" THEN [err |-> ErrOther, chunks |-> <<>>]
    ELSE IF h.kind = "tabix" THEN tabixChunks(h, f, chrom, start, end)
    ELSE csiChunks(h, f, chrom, start, end, neg)

\* Bix.ChunkedReader: the resolved chunk list, or an error.  fault "seek" is a
\* failure of index.NewChunkReader.
ChunkedReader(h, f, chrom, start, end, fault, neg) ==
    LET first == Chunks(h, f, chrom, start, end, fault, neg)
        r == IF first.err = ErrNoReference
             THEN Chunks(h, f, toggleChr(chrom), start, end, fault, neg)
             ELSE first
    IN IF r.err = ErrPanic THEN [err |-> ErrPanic, chunks |-> <<>>]
       ELSE IF r.err = ErrInvalid THEN [err |-> ErrNil, chunks |-> <<>>]
       ELSE IF r.err = ErrNoReference THEN [err |-> ErrNil, chunks |-> <<>>]
       ELSE IF r.err # ErrNil THEN [err |-> ErrOther, chunks |-> <<>>]
       ELSE IF fault = "seek" /\ r.chunks # <<>> THEN [err |-> ErrOther, chunks |-> <<>>]
       ELSE [err |-> ErrNil, chunks |-> r.chunks]

-----------------------------------------------------------------------------
(* Record building and one advance of an iterator.                         *)

\* a nil *parsers.Interval
NilInterval == [kind |-> "nil"]

\* the record of a panic while building
PanicRecord == [kind |-> "panic"]

\* uint32(x) of an int above -2^32: a negative x wraps to 2^32 + x, a number
\* too large to be written here and kept as the record [mod32 |-> x]
Uint32(x) == IF x >= 0 THEN x ELSE [mod32 |-> x]

\* newgeneric: nil when the begin or the end column does not parse
newgeneric(fields, chromCol, startCol, endCol, zeroBased) ==
    IF ~hasColumn(fields, startCol + 1) THEN PanicRecord
    ELSE LET s == Atoi(fields[startCol + 1])
         IN IF s.err THEN NilInterval
            ELSE IF ~hasColumn(fields, endCol + 1) THEN PanicRecord
            ELSE LET e == Atoi(fields[endCol + 1])
                 IN IF e.err THEN NilInterval
                    ELSE IF ~hasColumn(fields, chromCol + 1) THEN PanicRecord
                    ELSE [kind |-> "interval",
                          chrom |-> fields[chromCol + 1],
                          start |-> Uint32(IF zeroBased THEN s.val ELSE s.val - 1),
                          end |-> Uint32(e.val),
                          fields |-> fields]

\* Bix.toPosition: the error of newgeneric is dropped; with sniffed ref/alt
\* columns the interval is dereferenced
toPosition(h, toks) ==
    IF h.VReader THEN [kind |-> "variant", fields |-> toks]
    ELSE LET g == newgeneric(toks, h.NameColumn - 1, h.BeginColumn - 1,
                             h.EndColumn - 1, h.ZeroBased)
         IN IF h.refalt
            THEN IF g.kind # "interval" THEN PanicRecord
                 ELSE [kind |-> "refalt", interval |-> g,
                       HasEnd |-> h.EndColumn # h.BeginColumn]
            ELSE g

\* a nil region: the iterator is unbound
NoRegion == [chrom |-> <<>>, start |-> 0 - 1, end |-> 0 - 1]

\* what one call of Next ends with
ResRecord == "record"
ResEOF == "EOF"
ResError == "error"
ResPanic == "panic"

\* line[:len(line)-1] when the line ends with a newline
chomp(ln) == IF Len(ln) > 0 /\ ln[Len(ln)] = NL THEN SubSeq(ln, 1, Len(ln) - 1) ELSE ln

RECURSIVE advance(_, _, _, _)
\* bixerator.Next over the lines src still to be read (each with its newline):
\* the result, the record, the number of lines read and, for an end of
\* sequence, whether a STOP ended it
advance(h, reg, src, n) ==
    LET yield(rec) ==
            [res |-> IF rec = PanicRecord THEN ResPanic ELSE ResRecord,
             rec |-> rec, used |-> n + 1, stop |-> FALSE]
        bound(r) ==
            IF r.err = ErrPanic
            THEN [res |-> ResPanic, rec |-> NilInterval, used |-> n + 1, stop |-> FALSE]
            ELSE IF r.err = ErrEOF
            THEN [res |-> ResEOF, rec |-> NilInterval, used |-> n + 1, stop |-> TRUE]
            ELSE IF r.err # ErrNil
            THEN [res |-> ResError, rec |-> NilInterval, used |-> n + 1, stop |-> FALSE]
            ELSE IF r.in THEN yield(toPosition(h, r.toks))
            ELSE advance(h, reg, Tail(src), n + 1)
        vcf(mf) == IF mf.panic THEN yield(PanicRecord) ELSE yield(toPosition(h, mf.toks))
        one(ln) ==
            IF reg # NoRegion THEN bound(inBounds(h, reg, ln))
            ELSE IF h.VReader THEN vcf(makeFields(ln))
            ELSE yield(toPosition(h, Split(ln, TAB)))
    IN IF src = <<>>
       THEN [res |-> ResEOF, rec |-> NilInterval, used |-> n, stop |-> FALSE]
       ELSE one(chomp(Head(src)))

RECURSIVE streamOf(_, _, _)
\* index.ChunkReader: the offsets still delivered from chunk ci on when the
\* underlying reader stands at offset off
streamOf(chunks, ci, off) ==
    IF ci > Len(chunks) THEN <<>>
    ELSE IF off >= chunks[ci].e
    THEN IF ci = Len(chunks) THEN <<>>
         ELSE streamOf(chunks, ci + 1, chunks[ci + 1].b)
    ELSE <<off>> \o streamOf(chunks, ci, off + 1)

\* the chunk the reader is in after delivering the line at offset off
chunkAt(chunks, ci, off) ==
    IF \E k \in ci..Len(chunks) : chunks[k].b <= off /\ off < chunks[k].e
    THEN Min({k \in ci..Len(chunks) : chunks[k].b <= off /\ off < chunks[k].e})
    ELSE ci

-----------------------------------------------------------------------------
(* Opening a file: New.                                                    *)

META == "#"

\* a data line chrom, begin, end, name; bad names a column written with a
\* text that is no number
DataLine(chrom, b, e, bad) ==
    [text |-> Join(<<chrom,
                     IF bad = "begin" THEN <<"x">> ELSE Itoa(b),
                     IF bad = "end" THEN <<"y">> ELSE Itoa(e),
                     <<"a">>>>, <<TAB>>) \o <<NL>>,
     kind |-> "data", chrom |-> chrom, b |-> b, e |-> e, bad |-> bad]

RECURSIVE headerLoop(_, _, _, _)
\* the loop of New and of Query that reads past the header: the number of
\* header lines, or -1 when the file ends inside the header
headerLoop(f, skip, meta, i) ==
    IF i + 1 > Len(f) THEN 0 - 1
    ELSE IF i < skip \/ f[i + 1].text[1] = meta
    THEN headerLoop(f, skip, meta, i + 1)
    ELSE i

\* the chromosome names of the index, in file order
NamesOf(f) ==
    LET first == {i \in 1..Len(f) :
                    /\ f[i].kind = "data"
                    /\ \A j \in 1..(i - 1) : f[j].kind = "data" => f[j].chrom # f[i].chrom}
        RECURSIVE list(_)
        list(S) == IF S = {} THEN <<>>
                   ELSE <<f[Min(S)].chrom>> \o list(S \ {Min(S)})
    IN list(first)

\* New: the handle of a file with its index; header is the number of header
\* lines captured at open
New(f, kind, zero, skip, refalt) ==
    [kind |-> kind, names |-> NamesOf(f),
     NameColumn |-> 1, BeginColumn |-> 2, EndColumn |-> 3,
     ZeroBased |-> zero, MetaChar |-> META, Skip |-> skip,
     VReader |-> FALSE, refalt |-> refalt, rdr |-> 0,
     header |-> headerLoop(f, skip, META, 0)]

\* the header lines of a layout
HeaderOf(skip, meta) ==
    [i \in 1..(skip + meta) |->
        [text |-> IF i <= skip THEN <<"t", NL>> ELSE <<META, "c", NL>>,
         kind |-> "header", chrom |-> <<>>, b |-> 0, e |-> 0, bad |-> "none"]]

\* intervals of width at most w written in generated data lines; begin >= 1 so
\* that the line is valid with 0-based and with 1-based coordinates
Intervals(w) ==
    {iv \in (1..(MaxPos - 1)) \X (1..(MaxPos - 1)) : iv[1] <= iv[2] /\ iv[2] - iv[1] <= w}

C_1 == <<"1">>
C_2 == <<"2">>
C_3 == <<"3">>

\* data lines in coordinate order
Sorted(d) ==
    \A i \in 1..(Len(d) - 1) :
        \/ stripChr(d[i].chrom) = C_1 /\ stripChr(d[i + 1].chrom) = C_2
        \/ d[i].chrom = d[i + 1].chrom /\ d[i].b <= d[i + 1].b

\* the sorted sequences of 1..n lines over a set of lines
SortedFiles(lines, n) ==
    {d \in UNION {[1..k -> lines] : k \in 1..n} : Sorted(d)}

-----------------------------------------------------------------------------
(* Queries and iterators: Query, bixerator.Next, bixerator.Close.          *)

Iters == 1..MaxIters

\* newShort with the file and decompressor of the old handle
newShort_shared(old, id) == old

\* newShort: a copy of the handle with a file and a decompressor of its own
newShort(old, id) == [old EXCEPT !.rdr = id]

FreeSlot ==
    [state |-> "free", tbx |-> [rdr |-> 0], region |-> NoRegion, bound |-> FALSE,
     chunks |-> <<>>, ci |-> 1, pushed |-> <<>>]

NoHistory ==
    [calls |-> 0, results |-> <<>>, last |-> "none", read |-> <<>>,
     stopAt |-> 0, stream |-> <<>>, fault |-> "none"]

\* a process in which a call panicked runs no further call
Crashed == \E i \in Iters : its[i].state = "panic"

\* the offsets from..to
Offsets(from, to) == [k \in 1..(IF to >= from THEN to - from + 1 ELSE 0) |-> from + k - 1]

\* the texts of the lines at a sequence of offsets
Texts(f, offs) == [k \in 1..Len(offs) |-> f[offs[k]].text]

\* the state after Bix.Query(region) into slot i
Query(i, reg, fault, neg) ==
    /\ ~Crashed
    /\ its[i].state = "free"
    /\ LET t2 == newShort(tbx, i)
           opened == IF t2.rdr = i THEN [rd EXCEPT ![i] = [open |-> TRUE, off |-> 1]] ELSE rd
           failed == [FreeSlot EXCEPT !.state = "failed"]
           h0 == [NoHistory EXCEPT !.fault = fault]
       IN IF fault = "open"
          THEN /\ its' = [its EXCEPT ![i] = failed]
               /\ hist' = [hist EXCEPT ![i] = h0]
               /\ rd' = rd
          ELSE IF reg = NoRegion
          THEN LET h == headerLoop(file, t2.Skip, t2.MetaChar, 0)
                   back == IF h >= 0 /\ t2.Skip = 0 /\ file[h + 1].text[1] # t2.MetaChar
                           THEN <<h + 1>> ELSE <<>>
               IN IF h < 0
                  THEN /\ its' = [its EXCEPT ![i] = failed]
                       /\ hist' = [hist EXCEPT ![i] = h0]
                       /\ rd' = [opened EXCEPT ![t2.rdr].off = Len(file) + 1]
                  ELSE /\ its' = [its EXCEPT ![i] =
                                    [FreeSlot EXCEPT !.state = "live", !.tbx = t2,
                                                     !.pushed = back]]
                       /\ hist' = [hist EXCEPT ![i] =
                                    [h0 EXCEPT !.stream = back \o Offsets(h + 2, Len(file))]]
                       /\ rd' = [opened EXCEPT ![t2.rdr].off = h + 2]
          ELSE LET cr == ChunkedReader(t2, file, reg.chrom, reg.start, reg.end,
                                       IF opened[t2.rdr].open THEN fault ELSE "seek", neg)
               IN IF cr.err = ErrPanic
                  THEN /\ its' = [its EXCEPT ![i] = [FreeSlot EXCEPT !.state = "panic"]]
                       /\ hist' = [hist EXCEPT ![i] = h0]
                       /\ rd' = opened
                  ELSE IF cr.err # ErrNil
                  THEN /\ its' = [its EXCEPT ![i] = failed]
                       /\ hist' = [hist EXCEPT ![i] = h0]
                       /\ rd' = opened
                  ELSE /\ its' = [its EXCEPT ![i] =
                                    [FreeSlot EXCEPT !.state = "live", !.tbx = t2,
                                                     !.region = reg, !.bound = TRUE,
                                                     !.chunks = cr.chunks]]
                       /\ hist' = [hist EXCEPT ![i] =
                                    [h0 EXCEPT !.stream =
                                        IF cr.chunks = <<>> THEN <<>>
                                        ELSE streamOf(cr.chunks, 1, cr.chunks[1].b)]]
                       /\ rd' = IF cr.chunks = <<>> THEN opened
                                ELSE [opened EXCEPT ![t2.rdr].off = cr.chunks[1].b]
    /\ UNCHANGED <<file, tbx>>
    /\ UNCHANGED <<classVars, resolved>>

\* the state after one call of Next on the iterator of slot i
NextIt(i) ==
    /\ ~Crashed
    /\ its[i].state = "live"
    /\ hist[i].calls < MaxLines + 2
    /\ \E it \in {its[i]} :
       \E under \in {IF ~rd[it.tbx.rdr].open THEN <<>>
                     ELSE IF it.bound THEN streamOf(it.chunks, it.ci, rd[it.tbx.rdr].off)
                     ELSE Offsets(rd[it.tbx.rdr].off, Len(file))} :
       \E offs \in {it.pushed \o under} :
       \E res \in {IF ~rd[it.tbx.rdr].open /\ it.pushed = <<>>
                       /\ ~(it.bound /\ it.chunks = <<>>)
                    THEN [res |-> ResError, rec |-> NilInterval, used |-> 0, stop |-> FALSE]
                    ELSE advance(it.tbx, it.region, Texts(file, offs), 0)} :
       \E c \in {res.used - Len(it.pushed)} :
          /\ its' = [its EXCEPT
                        ![i].state = IF res.res = ResPanic THEN "panic" ELSE "live",
                        ![i].pushed = IF c >= 0 THEN <<>>
                                      ELSE SubSeq(it.pushed, res.used + 1, Len(it.pushed)),
                        ![i].ci = IF c > 0 THEN chunkAt(it.chunks, it.ci, under[c]) ELSE it.ci]
          /\ rd' = IF c > 0 THEN [rd EXCEPT ![it.tbx.rdr].off = under[c] + 1] ELSE rd
          /\ hist' = [hist EXCEPT
                        ![i].calls = @ + 1,
                        ![i].results = Append(@, [res |-> res.res, rec |-> res.rec,
                                                  stop |-> res.stop,
                                                  at |-> IF res.used = 0 THEN 0
                                                         ELSE offs[res.used]]),
                        ![i].last = res.res,
                        ![i].read = SubSeq(offs, 1, res.used),
                        ![i].stopAt = IF res.stop /\ @ = 0 THEN offs[res.used] ELSE @]
    /\ UNCHANGED <<file, tbx>>
    /\ UNCHANGED <<classVars, resolved>>

\* the state after Close on the iterator of slot i
Close(i) ==
    /\ ~Crashed
    /\ its[i].state = "live"
    /\ its' = [its EXCEPT ![i].state = "closed"]
    /\ rd' = [rd EXCEPT ![its[i].tbx.rdr].open = FALSE]
    /\ UNCHANGED <<file, tbx, hist>>
    /\ UNCHANGED <<classVars, resolved>>

\* the classifier variables of a specification that opens a file
IdleClassifier ==
    /\ line = <<>>
    /\ region = NoRegion
    /\ desc = [kind |-> "none"]
    /\ origin = [kind |-> "none"]
    /\ verdict = NoVerdict

\* the state after New(path) on a file
Opened(f, h) ==
    /\ file = f
    /\ tbx = h
    /\ rd = [r \in 0..MaxIters |-> [open |-> r = 0, off |-> 1]]
    /\ its = [i \in Iters |-> FreeSlot]
    /\ hist = [i \in Iters |-> NoHistory]
    /\ resolved = NoLookup
    /\ IdleClassifier

\* what the CSI library does with reference id -1
NegOutcomes == {"panic", "empty"}

-----------------------------------------------------------------------------
(* The files, handles and queries of the iterator specifications.          *)

\* files with many coordinate layouts on one chromosome, one meta line
CoordFiles ==
    {[file |-> HeaderOf(0, 1) \o d, kind |-> "tabix", zero |-> z, skip |-> 0, refalt |-> FALSE] :
        d \in SortedFiles({DataLine(C_1, iv[1], iv[2], "none") : iv \in Intervals(1)}, MaxLines),
        z \in BOOLEAN}

\* files with every header layout, whose two data lines may have a column
\* that is no number
HeaderFiles ==
    {[file |-> HeaderOf(sk, m) \o <<DataLine(C_1, 1, 2, b[1]), DataLine(C_1, 2, 3, b[2])>>,
      kind |-> "tabix", zero |-> FALSE, skip |-> sk, refalt |-> ra] :
        sk \in 0..MaxHeader, m \in 0..MaxHeader, ra \in BOOLEAN,
        b \in {<<"none", "none">>, <<"begin", "none">>, <<"end", "none">>,
               <<"none", "begin">>, <<"none", "end">>}}

\* files with two chromosomes, so that chunks start inside the file
TwoChromFiles ==
    {[file |-> HeaderOf(0, 1) \o <<DataLine(C_1, 1, 2, "none")>> \o d,
      kind |-> k, zero |-> FALSE, skip |-> 0, refalt |-> FALSE] :
        d \in SortedFiles({DataLine(C_2, iv[1], iv[2], "none") : iv \in Intervals(1)}, MaxLines - 1),
        k \in {"tabix", "csi"}}

\* the handle New returns for a generated file
HandleOf(x) == New(x.file, x.kind, x.zero, x.skip, x.refalt)

\* the regions a caller asks for: the regions of chromosome 1 of width 1 or
\* 2, and a few regions under the spellings chr1, 2 and 3
QueryRegions ==
    {[chrom |-> C_1, start |-> r.start, end |-> r.end] :
        r \in {x \in Regions : x.end - x.start <= 2}}
    \cup {[chrom |-> c, start |-> r[1], end |-> r[2]] :
            c \in {S_chr \o C_1, C_2, C_3},
            r \in {<<1, 3>>, <<MaxPos, MaxPos + 1>>}}

\* one query at a time on one handle
InitScan ==
    \E x \in CoordFiles \cup HeaderFiles \cup TwoChromFiles :
        /\ x.refalt => HandleOf(x).header > 0
        /\ Opened(x.file, HandleOf(x))

NextScan ==
    \/ \E reg \in QueryRegions, fault \in {"none", "open", "index", "seek"},
             neg \in NegOutcomes :
          /\ neg = "panic" => (tbx.kind = "csi" /\ fault = "none")
          /\ Query(1, reg, fault, neg)
    \/ \E fault \in {"none", "open"} : Query(1, NoRegion, fault, "empty")
    \/ NextIt(1)
    \/ Close(1)

SpecScan == InitScan /\ [][NextScan]_vars

-----------------------------------------------------------------------------
(* Claims about one iterator.                                              *)

\* slot i holds an iterator that Query returned
Returned(i) == its[i].state \in {"live", "closed"}

\* the offsets of the lines slot i yielded as records, in the order of the calls
Yielded(i) ==
    LET IsRecord(x) == x.res = ResRecord
        recs == SelectSeq(hist[i].results, IsRecord)
    IN [k \in 1..Len(recs) |-> recs[k].at]

\* every data line of the file has numbers in its begin and end columns
WellFormed(f) == \A k \in 1..Len(f) : f[k].bad = "none"

\* overlap in half-open coordinates: same chromosome, start < qend, end > qstart
TrueOverlap(h, reg, l) ==
    /\ stripChr(l.chrom) = stripChr(reg.chrom)
    /\ IdxStart(h, l) < reg.end
    /\ l.e > reg.start

\* every data line of the file is a non-empty half-open interval
NonEmpty(h, f) == \A k \in 1..Len(f) : f[k].kind = "data" => IdxStart(h, f[k]) < f[k].e

\* C1: a region-bound iterator run to end-of-sequence over a sorted file of
\* non-empty intervals has yielded exactly the lines of the resolved chunks
\* that truly overlap the region in half-open coordinates, in file order.
C1_ExactlyTrueOverlaps ==
    \A i \in DOMAIN its :
        (/\ Returned(i) /\ its[i].bound /\ hist[i].last = ResEOF
         /\ WellFormed(file) /\ NonEmpty(tbx, file)) =>
            LET Hit(o) == TrueOverlap(tbx, its[i].region, file[o])
            IN Yielded(i) = SelectSeq(hist[i].stream, Hit)

\* the lines of the resolved stream of slot i all have a number in the begin column
SortedStream(i) == \A k \in 1..Len(hist[i].stream) : file[hist[i].stream[k]].bad # "begin"

\* the result of a call that a STOP ended
IsStop(x) == x.res = ResEOF /\ x.stop

\* C5: over a sorted stream, STOP is returned exactly at the first line with
\* pos >= qend; that call returns end-of-sequence, no line after it is yielded
\* and every later Next returns end-of-sequence as well.
C5_StopInvariant ==
    \A i \in DOMAIN its :
        (Returned(i) /\ its[i].bound /\ SortedStream(i)) =>
            LET rs == hist[i].results
                reg == its[i].region
                pos(o) == IdxStart(tbx, file[o])
            IN /\ \A k \in 1..Len(rs) :
                    /\ IsStop(rs[k]) => pos(rs[k].at) >= reg.end
                    /\ rs[k].res = ResRecord => pos(rs[k].at) < reg.end
                    /\ rs[k].res = ResEOF => \A j \in k..Len(rs) : rs[j].res = ResEOF
               /\ \A k \in 1..Len(hist[i].read) :
                    pos(hist[i].read[k]) >= reg.end =>
                        k = Len(hist[i].read) /\ hist[i].last = ResEOF
               /\ hist[i].stopAt # 0 =>
                    /\ \A k \in 1..Len(hist[i].stream) :
                          hist[i].stream[k] < hist[i].stopAt => pos(hist[i].stream[k]) < reg.end
                    /\ \A k \in 1..Len(rs) : rs[k].res = ResRecord => rs[k].at < hist[i].stopAt
               /\ (hist[i].stopAt = 0 /\ hist[i].last = ResEOF) =>
                    \A k \in 1..Len(hist[i].stream) : pos(hist[i].stream[k]) < reg.end

\* C5 witness: an iterator yielded a record, was stopped by a line at or after
\* the region's end while lines were left, and a later Next returned
\* end-of-sequence again
C5_Witness ==
    \E i \in DOMAIN its :
        /\ Returned(i) /\ its[i].bound /\ SortedStream(i)
        /\ hist[i].stopAt # 0
        /\ Len(Yielded(i)) > 0
        /\ \E k \in 1..Len(hist[i].results) :
              /\ IsStop(hist[i].results[k])
              /\ hist[i].results[k].at > hist[i].stopAt

\* the chromosome of a region is unknown to the index under both spellings
UnknownBoth(reg) ==
    /\ NameIndex(tbx.names, reg.chrom) = 0
    /\ NameIndex(tbx.names, toggleChr(reg.chrom)) = 0

\* C7: an unknown chromosome or structurally invalid input gives an iterator,
\* no error, and end-of-sequence at the first Next; any other failure of the
\* lookup gives an error and no iterator.
C7_UnknownChromIsEmpty ==
    \A i \in DOMAIN its :
        /\ its[i].state = "failed" => hist[i].fault # "none"
        /\ hist[i].fault = "index" => its[i].state = "failed"
        /\ ~(its[i].state = "panic" /\ hist[i].calls = 0)
        /\ (Returned(i) /\ its[i].bound /\ UnknownBoth(its[i].region)) =>
              /\ hist[i].stream = <<>>
              /\ hist[i].calls >= 1 =>
                    hist[i].results[1].res = ResEOF /\ ~hist[i].results[1].stop

\* C8: an unbound iterator run to the end has yielded one record for every
\* line after the header captured at open, in file order, for every skip
\* count and every number of meta lines.
C8_UnboundYieldsAllDataLines ==
    \A i \in DOMAIN its :
        (Returned(i) /\ ~its[i].bound /\ hist[i].last = ResEOF) =>
            Yielded(i) = Offsets(tbx.header + 1, Len(file))

\* C19: the file and decompressor a Query opened are open exactly while the
\* iterator it returned is not closed; a Query that returned an error left
\* none open.
C19_NoLeak ==
    ~Crashed =>
        \A i \in DOMAIN its : rd[i].open = (its[i].state = "live")

\* C9: a Next that reads a line whose begin or end column is no number returns
\* an error: no record, no skip, no panic.  (A line at or after the region's
\* end may end the sequence before its end column is read.)
C9_MalformedLineIsError ==
    \A i \in DOMAIN its :
        hist[i].calls >= 1 =>
            \A k \in 1..Len(hist[i].read) :
                file[hist[i].read[k]].bad # "none" =>
                    /\ k = Len(hist[i].read)
                    /\ \/ hist[i].last = ResError
                       \/ /\ its[i].bound
                          /\ hist[i].last = ResEOF
                          /\ file[hist[i].read[k]].bad = "end"

-----------------------------------------------------------------------------
(* Chunk resolution under the two spellings of a chromosome name.          *)

RECURSIVE drain(_, _, _, _)
\* the records of an iterator over the lines at offs that is run until a
\* call of Next returns no record
drain(h, f, reg, offs) ==
    LET r == advance(h, reg, Texts(f, offs), 0)
    IN IF r.res = ResRecord
       THEN <<r.rec>> \o drain(h, f, reg, SubSeq(offs, r.used + 1, Len(offs)))
       ELSE <<>>

\* Query(region) run to its end: the error, the chunk list and the records
lookup(h, f, reg, neg) ==
    LET cr == ChunkedReader(h, f, reg.chrom, reg.start, reg.end, "none", neg)
    IN [err |-> cr.err, chunks |-> cr.chunks,
        records |-> IF cr.err # ErrNil \/ cr.chunks = <<>> THEN <<>>
                    ELSE drain(h, f, reg, streamOf(cr.chunks, 1, cr.chunks[1].b))]

\* files of two chromosomes whose names are written with or without "chr"
SpelledFiles ==
    {[file |-> HeaderOf(0, 1) \o d, kind |-> k, zero |-> FALSE, skip |-> 0, refalt |-> FALSE] :
        d \in UNION {SortedFiles({DataLine(pre \o c, iv[1], iv[2], "none") :
                                     c \in {C_1, C_2}, iv \in Intervals(1)}, MaxLines - 1) :
                        pre \in {<<>>, S_chr}},
        k \in {"tabix", "csi"}}

InitChunks ==
    /\ \E x \in SpelledFiles :
          /\ file = x.file
          /\ tbx = HandleOf(x)
    /\ rd = <<>>
    /\ its = <<>>
    /\ hist = <<>>
    /\ line = <<>>
    /\ desc = [kind |-> "none"]
    /\ verdict = NoVerdict
    /\ origin \in {C_1, C_2, C_3}
    /\ \E r \in {x \in Regions : x.end - x.start <= 2} :
          region = [chrom |-> origin, start |-> r.start, end |-> r.end]
    /\ resolved = NoLookup

\* the same region is asked for under the plain and under the prefixed spelling
Resolve(neg) ==
    /\ resolved = NoLookup
    /\ resolved' = [plain |-> lookup(tbx, file, region, neg),
                    prefixed |-> lookup(tbx, file, [region EXCEPT !.chrom = S_chr \o origin], neg)]
    /\ UNCHANGED <<classVars, iterVars>>

NextChunks == \E neg \in NegOutcomes : Resolve(neg)

SpecChunks == InitChunks /\ [][NextChunks]_vars

\* the index knows exactly one of the two spellings of the asked chromosome
OneSpellingKnown ==
    (NameIndex(tbx.names, origin) = 0) # (NameIndex(tbx.names, S_chr \o origin) = 0)

\* C6: when the index knows only one spelling of the chromosome, the query
\* under the other spelling resolves to the same chunk list and returns the
\* same records, without error, for the tabix and for the CSI index.
C6_ChromosomeFallback ==
    (resolved # NoLookup /\ OneSpellingKnown) =>
        /\ resolved.plain = resolved.prefixed
        /\ resolved.plain.err = ErrNil

\* C6 witness: a tabix index that knows one spelling returned records
C6_Witness ==
    /\ resolved # NoLookup
    /\ OneSpellingKnown
    /\ tbx.kind = "tabix"
    /\ resolved.plain.records # <<>>
    /\ resolved.prefixed.records # <<>>

-----------------------------------------------------------------------------
(* Several iterators on one handle.                                        *)

\* the files of the specification with several iterators
PairFiles ==
    {[file |-> HeaderOf(0, 1) \o <<DataLine(C_1, 1, 2, "none"), DataLine(C_1, 2, 3, "none"),
                                   DataLine(C_2, 1, 3, "none")>>,
      kind |-> k, zero |-> FALSE, skip |-> 0, refalt |-> FALSE] : k \in {"tabix", "csi"}}

\* the regions asked for in the specification with several iterators
PairRegions ==
    {[chrom |-> C_1, start |-> 0, end |-> 2], [chrom |-> C_2, start |-> 0, end |-> MaxPos]}

Init == \E x \in PairFiles : Opened(x.file, HandleOf(x))

Next ==
    \E i \in Iters :
        \/ \E reg \in PairRegions : Query(i, reg, "none", "empty")
        \/ Query(i, NoRegion, "none", "empty")
        \/ NextIt(i)
        \/ Close(i)

Spec == Init /\ [][Next]_vars

RECURSIVE solo(_, _, _, _, _)
\* what the first n calls of Next return on an iterator that runs alone over
\* the lines at offs
solo(h, f, reg, offs, n) ==
    IF n = 0 THEN <<>>
    ELSE LET r == advance(h, reg, Texts(f, offs), 0)
         IN <<[res |-> r.res, rec |-> r.rec, stop |-> r.stop,
               at |-> IF r.used = 0 THEN 0 ELSE offs[r.used]]>>
            \o solo(h, f, reg, SubSeq(offs, r.used + 1, Len(offs)), n - 1)

\* C10: under every interleaving of Next and Close on iterators of one handle,
\* each iterator returns what it returns when it runs alone, every Query
\* succeeds, and the handle's own file and decompressor are left as they were.
C10_IteratorsIndependent ==
    /\ rd[0] = [open |-> TRUE, off |-> 1]
    /\ \A i \in DOMAIN its :
          /\ its[i].state # "failed"
          /\ Returned(i) =>
                hist[i].results =
                    solo(tbx, file, its[i].region, hist[i].stream, hist[i].calls)

\* C10 witness: one iterator was closed after yielding, and another one of
\* the same handle has yielded two records
C10_Witness ==
    \E i \in DOMAIN its, j \in DOMAIN its :
        /\ i # j
        /\ its[i].state = "closed" /\ Len(Yielded(i)) >= 1
        /\ its[j].state = "live" /\ Len(Yielded(j)) >= 2

-----------------------------------------------------------------------------
(* The version with a block cache: Bix.Get, fillCache, chunksEqual.        *)

\* number of Get calls on one handle
MaxGets == 2

\* sizeCutoff := uint32(65536 / 2)
sizeCutoff == 32768

\* a data line chrom, begin, end whose end column is the last column
BedLine(chrom, b, e) ==
    [text |-> Join(<<chrom, Itoa(b), Itoa(e)>>, <<TAB>>) \o <<NL>>,
     kind |-> "data", chrom |-> chrom, b |-> b, e |-> e, bad |-> "none"]

\* chunksEqual: equal and not empty
chunksEqual(a, b) ==
    /\ Len(a) = Len(b)
    /\ Len(a) # 0
    /\ \A i \in 1..Len(a) : a[i] = b[i]

\* newReader: maxCol of the reader of a file that is no VCF
maxCol(h) ==
    (IF h.BeginColumn - 1 > h.EndColumn - 1 THEN h.BeginColumn - 1 ELSE h.EndColumn - 1) + 2

\* bixReader.inBounds for a descriptor with an end column
bixReaderInBounds(h, reg, ln0) ==
    LET withEnd(toks, e) ==
            IF e.err THEN Ret(FALSE, ErrSyntax, toks)
            ELSE IF e.val < reg.start THEN Ret(FALSE, ErrNil, toks)
            ELSE Ret(TRUE, ErrNil, toks)
        withBegin(toks, s) ==
            IF s.err THEN Ret(FALSE, ErrSyntax, toks)
            ELSE IF normalize(h, s.val) >= reg.end THEN Ret(FALSE, ErrEOF, toks)
            ELSE IF h.EndColumn - 1 # -1 THEN withEnd(toks, Atoi(toks[h.EndColumn]))
            ELSE Ret(FALSE, ErrNil, toks)
        classify(toks) == withBegin(toks, Atoi(toks[h.BeginColumn]))
    IN classify(Split(TrimRight(ln0), TAB))

\* the chunk lookup at the head of the cached ChunkedReader: every error of
\* the second lookup is returned
cachedChunks(h, f, q) ==
    LET retry(first) ==
            IF first.err = ErrNoReference
            THEN tabixChunks(h, f, toggleChr(q.chrom), q.start, q.end)
            ELSE first
    IN retry(tabixChunks(h, f, q.chrom, q.start, q.end))

\* the cached ChunkedReader: a chunk list other than the last one empties the cache
resetCache(h, chunks) ==
    IF chunksEqual(chunks, h.lastChunks) THEN h
    ELSE [h EXCEPT !.lastChunks = chunks, !.cache = <<>>]

\* fillCache: every line read from the chunk list, cut into at most maxCol
\* fields with its newline, becomes a cache entry; n lines are read before
\* the stream ends or a read fails, which is logged and ends the fill
fillCache(h, src, n) ==
    IF Len(h.cache) # 0 THEN h
    ELSE [h EXCEPT !.cache =
            [k \in 1..n |-> toPosition(h, SplitN(src[k], TAB, maxCol(h)))]]

\* interfaces.OverlapsPosition of the interval library, whose source is not in
\* this repository: lib.touch says whether an interval that ends where the
\* query starts counts as overlapping
OverlapsPosition(v, q, lib) ==
    /\ stripChr(v.chrom) = stripChr(q.chrom)
    /\ q.end > v.start
    /\ IF lib.touch THEN q.start <= v.end ELSE q.start < v.end

RECURSIVE scanCache(_, _, _, _)
\* the dense branch of the loop of Get from cache entry k on.  A cache entry
\* made from a line that did not parse is a nil *Interval inside a non-nil
\* interface: lib.nilRecv says whether calling its methods panics or gives
\* zero values
scanCache(cache, q, k, lib) ==
    IF k > Len(cache) THEN <<>>
    ELSE IF cache[k].kind # "interval"
    THEN IF lib.nilRecv = "panic" THEN <<PanicRecord>>
         ELSE scanCache(cache, q, k + 1, lib)
    ELSE IF OverlapsPosition(cache[k], q, lib)
    THEN <<cache[k]>> \o scanCache(cache, q, k + 1, lib)
    ELSE IF cache[k].start >= q.end THEN <<>>
    ELSE scanCache(cache, q, k + 1, lib)

RECURSIVE scanLines(_, _, _)
\* the streamed branch of the loop of Get over the lines still to be read
scanLines(h, q, src) ==
    LET step(r) ==
            IF ~r.in
            THEN IF r.err = ErrEOF THEN <<>> ELSE scanLines(h, q, Tail(src))
            ELSE <<toPosition(h, r.toks)>> \o scanLines(h, q, Tail(src))
    IN IF src = <<>> THEN <<>> ELSE step(bixReaderInBounds(h, q, Head(src)))

\* the threshold test with the threshold itself on the cached side
dense_le(q) == q.end - q.start <= sizeCutoff

\* q.End()-q.Start() < sizeCutoff
dense(q) == q.end - q.start < sizeCutoff

\* the lines a chunk reader over a chunk list delivers
linesOf(f, chunks) ==
    IF chunks = <<>> THEN <<>> ELSE Texts(f, streamOf(chunks, 1, chunks[1].b))

\* the handle of the cached version: lastChunks and cache are fields of Bix
cachedHandle(x) ==
    [kind |-> "tabix", names |-> NamesOf(x.file),
     NameColumn |-> 1, BeginColumn |-> 2, EndColumn |-> 3,
     ZeroBased |-> x.zero, MetaChar |-> META, Skip |-> 0,
     VReader |-> FALSE, refalt |-> FALSE,
     lastChunks |-> <<>>, cache |-> <<>>]

\* files of one chromosome whose lines have a name column or end with the end
\* column
GetFiles ==
    {[file |-> HeaderOf(0, 1) \o d, zero |-> z] :
        d \in UNION {SortedFiles({DataLine(C_1, iv[1], iv[2], "none") :
                                     iv \in {x \in Intervals(1) : x[1] <= 2}}, MaxLines - 1),
                     SortedFiles({BedLine(C_1, iv[1], iv[2]) :
                                     iv \in {x \in Intervals(1) : x[1] <= 2}}, MaxLines - 1)},
        z \in BOOLEAN}

\* the regions of Get: short ones, which go through the cache, and long ones,
\* which are streamed
GetRegions ==
    {[chrom |-> c, start |-> r[1], end |-> r[2]] :
        c \in {C_1},
        r \in {<<0, 2>>, <<2, 3>>, <<0, sizeCutoff>>, <<2, sizeCutoff + 2>>}}
    \cup {[chrom |-> C_2, start |-> 1, end |-> 2]}

InitGet ==
    /\ \E x \in GetFiles :
          /\ file = x.file
          /\ tbx = cachedHandle(x)
    /\ desc \in [kind : {"lib"}, touch : BOOLEAN, nilRecv : {"panic", "zero"}]
    /\ hist = <<>>
    /\ rd = <<>>
    /\ its = <<>>
    /\ line = <<>>
    /\ region = NoRegion
    /\ origin = [kind |-> "none"]
    /\ verdict = NoVerdict
    /\ resolved = NoLookup

\* the state after Bix.Get(q); hist records what it returned and what the
\* streamed loop returns over the same chunk list.  The fill reads every line
\* of the chunk list, or fails after the first of several lines
Get(q) ==
    /\ Len(hist) < MaxGets
    /\ ~(hist # <<>> /\ hist[Len(hist)].panic)
    /\ \E cr \in {cachedChunks(tbx, file, q)} :
          IF cr.err # ErrNil
          THEN /\ tbx' = tbx
               /\ hist' = Append(hist, [q |-> q, err |-> TRUE, dense |-> dense(q),
                                        panic |-> FALSE, got |-> <<>>, want |-> <<>>])
          ELSE \E src \in {linesOf(file, cr.chunks)} :
               \E t1 \in {resetCache(tbx, cr.chunks)} :
               \E n \in {Len(src)} \cup (IF Len(src) >= 2 THEN {1} ELSE {}) :
               \E t2 \in {IF Len(t1.cache) = 0 /\ dense(q) THEN fillCache(t1, src, n) ELSE t1} :
               \E got \in {IF dense(q) THEN scanCache(t2.cache, q, 1, desc)
                           ELSE scanLines(t2, q, src)} :
                  /\ tbx' = t2
                  /\ hist' = Append(hist, [q |-> q, err |-> FALSE, dense |-> dense(q),
                                           panic |-> \E k \in 1..Len(got) : got[k] = PanicRecord,
                                           got |-> got, want |-> scanLines(t2, q, src)])
    /\ UNCHANGED <<file, rd, its, classVars, resolved>>

NextGet == \E q \in GetRegions : Get(q)

SpecGet == InitGet /\ [][NextGet]_vars

\* chromosome, start and end of the records of a result
Coordinates(recs) ==
    [k \in 1..Len(recs) |->
        IF recs[k].kind = "interval" THEN <<recs[k].chrom, recs[k].start, recs[k].end>>
        ELSE <<recs[k].kind>>]

\* C4: every dense-mode Get returns, from the cache, the records that the
\* streamed classification returns over the same chunk list, whatever Get
\* calls came before it.
C4_CacheEquivalence ==
    \A k \in 1..Len(hist) :
        (hist[k].dense /\ ~hist[k].err) =>
            /\ ~hist[k].panic
            /\ Coordinates(hist[k].got) = Coordinates(hist[k].want)

\* C17: after any sequence of Get calls the cache is empty or holds the
\* records of all lines of the last resolved chunk list, in file order.
C17_CacheValid ==
    \/ tbx.cache = <<>>
    \/ \E src \in {linesOf(file, tbx.lastChunks)} :
          tbx.cache = [k \in 1..Len(src) |-> toPosition(tbx, SplitN(src[k], TAB, maxCol(tbx)))]

\* C18: a Get whose span is at or above the threshold returns the streamed
\* records and leaves the cache as it was or emptied, never longer; a Get
\* whose span is below the threshold returns what the scan of the cache
\* gives, and the cache is not empty afterwards when it was empty before and
\* the chunk list has lines.
C18_CacheBypass ==
    [][Len(hist') = Len(hist) + 1 =>
        LET e == hist'[Len(hist')]
        IN ~e.err =>
             IF e.q.end - e.q.start >= sizeCutoff
             THEN /\ e.got = e.want
                  /\ tbx'.cache = tbx.cache \/ tbx'.cache = <<>>
             ELSE /\ e.got = scanCache(tbx'.cache, e.q, 1, desc)
                  /\ (tbx.cache = <<>> /\ linesOf(file, tbx'.lastChunks) # <<>>)
                        => tbx'.cache # <<>>]_vars

\* C18 witness: a Get below the threshold filled the cache and a Get at the
\* threshold over the same chunk list left it in place
C18_Witness ==
    /\ Len(hist) = 2
    /\ hist[1].dense /\ ~hist[1].err
    /\ hist[2].q.end - hist[2].q.start = sizeCutoff
    /\ ~hist[2].err
    /\ hist[2].got # <<>>
    /\ tbx.cache # <<>>

-----------------------------------------------------------------------------
(* The single-owner mode: Bix.FastQuery and Bix.init.                      *)

\* Bix.init: reopens the file and the decompressor only when the file field
\* is nil
init(readers, fileIsNil) ==
    IF ~fileIsNil THEN readers
    ELSE [readers EXCEPT ![0] = [open |-> TRUE, off |-> 1]]

\* the state after Bix.FastQuery(region) into slot i: the iterator holds the
\* handle itself.  New sets the file field and Close does not reset it, so it
\* is never nil here; a seek on the closed decompressor fails.
FastQuery(i, reg) ==
    /\ ~Crashed
    /\ its[i].state = "free"
    /\ \A j \in Iters : j < i => its[j].state \in {"closed", "failed"}
    /\ \E opened \in {init(rd, FALSE)} :
       \E cr \in {ChunkedReader(tbx, file, reg.chrom, reg.start, reg.end,
                                IF opened[0].open THEN "none" ELSE "seek", "empty")} :
          IF cr.err # ErrNil
          THEN /\ its' = [its EXCEPT ![i] = [FreeSlot EXCEPT !.state = "failed", !.region = reg]]
               /\ hist' = [hist EXCEPT ![i] = NoHistory]
               /\ rd' = opened
          ELSE /\ its' = [its EXCEPT ![i] =
                            [FreeSlot EXCEPT !.state = "live", !.tbx = tbx, !.region = reg,
                                             !.bound = TRUE, !.chunks = cr.chunks]]
               /\ hist' = [hist EXCEPT ![i] =
                            [NoHistory EXCEPT !.stream =
                                IF cr.chunks = <<>> THEN <<>>
                                ELSE streamOf(cr.chunks, 1, cr.chunks[1].b)]]
               /\ rd' = IF cr.chunks = <<>> THEN opened
                        ELSE [opened EXCEPT ![0].off = cr.chunks[1].b]
    /\ UNCHANGED <<file, tbx>>
    /\ UNCHANGED <<classVars, resolved>>

\* the regions asked for in single-owner mode; chromosome 3 is in no file
FastRegions ==
    PairRegions \cup {[chrom |-> C_1, start |-> 1, end |-> MaxPos],
                      [chrom |-> C_3, start |-> 0, end |-> 2]}

InitFast == \E x \in PairFiles : Opened(x.file, HandleOf(x))

NextFast ==
    \E i \in Iters :
        \/ \E reg \in FastRegions : FastQuery(i, reg)
        \/ NextIt(i)
        \/ Close(i)

SpecFast == InitFast /\ [][NextFast]_vars

\* the lines Query(region) resolves on the open file
queryStream(reg) ==
    LET offsets(cr) ==
            IF cr.err # ErrNil \/ cr.chunks = <<>> THEN <<>>
            ELSE streamOf(cr.chunks, 1, cr.chunks[1].b)
    IN offsets(ChunkedReader(tbx, file, reg.chrom, reg.start, reg.end, "none", "empty"))

\* C11: in a sequence of FastQuery calls on one handle, each iterator closed
\* before the next query, every FastQuery succeeds and its iterator returns
\* what the iterator of Query returns for the same region.
C11_FastQueryReusable ==
    \A i \in DOMAIN its :
        its[i].state # "free" =>
            /\ its[i].state \in {"live", "closed"}
            /\ hist[i].results =
                  solo(tbx, file, its[i].region, queryStream(its[i].region), hist[i].calls)

-----------------------------------------------------------------------------
(* The byte reader of the cached version: Bix.Query and bixReader.Read.    *)

\* size of the largest buffer handed to Read
MaxBuf == 9

\* r.buf = r.buf[len(p):] with every pending byte dropped
bufRest_drop(buf, n) == <<>>

\* r.buf = r.buf[len(p):]
bufRest(buf, n) == SubSeq(buf, n + 1, Len(buf))

RECURSIVE fillBuf(_, _, _, _, _, _)
\* the loop of Read: lines are read and the in-bounds ones appended until the
\* buffer holds n bytes, the stream ends or a line stops the scan
fillBuf(h, reg, buf, src, pos, n) ==
    LET step(r) ==
            IF r.err = ErrEOF
            THEN [buf |-> IF r.in THEN buf \o src[pos] ELSE buf, pos |-> pos + 1, err |-> ErrEOF]
            ELSE fillBuf(h, reg, IF r.in THEN buf \o src[pos] ELSE buf, src, pos + 1, n)
    IN IF Len(buf) >= n THEN [buf |-> buf, pos |-> pos, err |-> ErrNil]
       ELSE IF pos > Len(src) THEN [buf |-> buf, pos |-> pos, err |-> ErrEOF]
       ELSE step(bixReaderInBounds(h, reg, src[pos]))

\* the captured header text
HeaderText(f) ==
    LET RECURSIVE cat(_)
        cat(k) == IF k = 0 THEN <<>> ELSE cat(k - 1) \o f[k].text
    IN cat(headerLoop(f, 0, META, 0))

\* a file of one header line and sorted lines of one chromosome is opened
InitRead ==
    /\ \E d \in UNION {SortedFiles({DataLine(C_1, iv[1], iv[2], "none") : iv \in Intervals(1)},
                                    MaxLines - 1),
                        SortedFiles({BedLine(C_1, iv[1], iv[2]) : iv \in Intervals(1)},
                                    MaxLines - 1)},
          z \in BOOLEAN :
          /\ file = HeaderOf(0, 1) \o d
          /\ tbx = cachedHandle([file |-> HeaderOf(0, 1) \o d, zero |-> z])
    /\ rd = [state |-> "none"]
    /\ hist = [out |-> <<>>, eof |-> FALSE, reads |-> 0]
    /\ desc = [kind |-> "none"]
    /\ its = <<>>
    /\ line = <<>>
    /\ region = NoRegion
    /\ origin = [kind |-> "none"]
    /\ verdict = NoVerdict
    /\ resolved = NoLookup

\* the state after Query(chrom, start, end, printHeader) of the cached version
QueryReader(reg, printHeader) ==
    /\ rd.state = "none"
    /\ \E cr \in {cachedChunks(tbx, file, reg)} :
          IF cr.err # ErrNil
          THEN rd' = [state |-> "failed"] /\ tbx' = tbx
          ELSE /\ rd' = [state |-> "open", src |-> linesOf(file, cr.chunks), pos |-> 1,
                         buf |-> IF printHeader THEN HeaderText(file) ELSE <<>>]
               /\ tbx' = resetCache(tbx, cr.chunks)
    /\ region' = reg
    /\ desc' = [kind |-> "reader", printHeader |-> printHeader]
    /\ UNCHANGED <<file, its, hist, line, origin, verdict, resolved>>

\* the state after one Read with a buffer of n bytes
Read(n) ==
    /\ rd.state = "open"
    /\ \E f \in {fillBuf(tbx, region, rd.buf, rd.src, rd.pos, n)} :
       \E rest \in {IF Len(f.buf) >= n THEN bufRest(f.buf, n) ELSE <<>>} :
       \E err \in {IF Len(f.buf) >= n /\ Len(rest) > 0 /\ f.err = ErrEOF
                   THEN ErrNil ELSE f.err} :
          /\ rd' = [rd EXCEPT !.buf = rest, !.pos = f.pos]
          /\ hist' = [out |-> hist.out \o (IF Len(f.buf) >= n THEN SubSeq(f.buf, 1, n)
                                           ELSE f.buf),
                      eof |-> hist.eof \/ err = ErrEOF,
                      reads |-> IF hist.reads < 3 THEN hist.reads + 1 ELSE 3]
    /\ UNCHANGED <<file, tbx, its, classVars, resolved>>

NextRead ==
    \/ \E reg \in GetRegions, printHeader \in BOOLEAN : QueryReader(reg, printHeader)
    \/ \E n \in {0, 1, 3, MaxBuf} : Read(n)

SpecRead == InitRead /\ [][NextRead]_vars

\* the byte stream the reader of the last Query has to deliver: the header
\* when asked for, then the raw lines of the region's chunks, up to the first
\* line that starts at or after the region's end, whose end is not before the
\* region's start
ExpectedBytes ==
    LET RECURSIVE overlapText(_)
        overlapText(offs) ==
            IF offs = <<>> \/ IdxStart(tbx, file[Head(offs)]) >= region.end THEN <<>>
            ELSE (IF file[Head(offs)].e >= region.start THEN file[Head(offs)].text ELSE <<>>)
                 \o overlapText(Tail(offs))
        offsets(cr) ==
            IF cr.chunks = <<>> THEN <<>> ELSE streamOf(cr.chunks, 1, cr.chunks[1].b)
    IN (IF desc.printHeader THEN HeaderText(file) ELSE <<>>)
       \o overlapText(offsets(cachedChunks(tbx, file, region)))

\* C12: over every sequence of Read calls with any buffer sizes, the bytes
\* delivered so far are a prefix of the header text (when asked for) followed
\* by the raw overlapping lines in file order, and once a Read has reported
\* EOF all of these bytes have been delivered.
C12_ReadDeliversByteStream ==
    rd.state = "open" =>
        /\ Len(hist.out) <= Len(ExpectedBytes)
        /\ hist.out = SubSeq(ExpectedBytes, 1, Len(hist.out))
        /\ hist.eof => hist.out = ExpectedBytes

\* C12 witness: the header and at least one line were delivered by three or
\* more Read calls before EOF was reported
C12_Witness ==
    /\ rd.state = "open"
    /\ desc.printHeader
    /\ hist.eof
    /\ hist.reads >= 3
    /\ Len(hist.out) > Len(HeaderText(file))

-----------------------------------------------------------------------------
(* NewCSI: the descriptor read from the auxiliary block of a CSI index.    *)

\* the largest number of references of an index
MaxRefs == 2

\* binary.LittleEndian.Uint32(aux[off:off+4])
LittleEndianUint32(aux, off) ==
    aux[off + 1] + 256 * aux[off + 2] + 65536 * aux[off + 3] + 16777216 * aux[off + 4]

\* an index written for some columns, meta character, skip count and reference
\* names: the auxiliary block holds the format word, five 32-bit fields, the
\* length of the name block and the names, each ended by a zero byte
InitCSI ==
    /\ \E d \in [nameColumn : {1, 2}, beginColumn : {2, 3}, endColumn : {0, 3},
                 metaChar : {35, 64}, skip : {0, 257},
                 names : UNION {[1..n -> {<<49>>, <<88>>, <<99, 104, 114, 49>>}] : n \in 0..MaxRefs}] :
          LET le(v) == <<v % 256, (v \div 256) % 256, (v \div 65536) % 256, v \div 16777216>>
              RECURSIVE block(_)
              block(k) == IF k = 0 THEN <<>> ELSE block(k - 1) \o d.names[k] \o <<0>>
          IN /\ desc = [kind |-> "aux"] @@ d
             /\ line = le(2) \o le(d.nameColumn) \o le(d.beginColumn) \o le(d.endColumn)
                       \o le(d.metaChar) \o le(d.skip)
                       \o le(Len(block(Len(d.names)))) \o block(Len(d.names))
    /\ tbx = [kind |-> "none"]
    /\ file = <<>>
    /\ rd = <<>>
    /\ its = <<>>
    /\ hist = <<>>
    /\ region = NoRegion
    /\ origin = [kind |-> "none"]
    /\ verdict = NoVerdict
    /\ resolved = NoLookup

\* NewCSI on the auxiliary block; slicing aux[28:28+L-1] with L = 0 panics
NewCSI ==
    /\ tbx.kind = "none"
    /\ \E L \in {LittleEndianUint32(line, 24)} :
          tbx' = IF 28 + L - 1 < 28 THEN PanicRecord
                 ELSE [kind |-> "csi",
                       nameColumn |-> LittleEndianUint32(line, 4),
                       beginColumn |-> LittleEndianUint32(line, 8),
                       endColumn |-> LittleEndianUint32(line, 12),
                       metaChar |-> LittleEndianUint32(line, 16),
                       skip |-> LittleEndianUint32(line, 20),
                       chroms |-> Split(Slice(line, 28, 28 + L - 1), 0)]
    /\ UNCHANGED <<file, rd, its, hist, resolved, classVars>>

SpecCSI == InitCSI /\ [][NewCSI]_vars

\* C13: NewCSI returns a descriptor whose nameColumn, beginColumn, endColumn,
\* metaChar and skip are the 32-bit little-endian values written at offsets 4,
\* 8, 12, 16 and 20 of the auxiliary block, and whose chromosome names are the
\* names of the name block in index order, as many as the index has references.
C13_AuxBlockVerbatim ==
    tbx.kind # "none" =>
        /\ tbx.kind = "csi"
        /\ tbx.nameColumn = desc.nameColumn
        /\ tbx.beginColumn = desc.beginColumn
        /\ tbx.endColumn = desc.endColumn
        /\ tbx.metaChar = desc.metaChar
        /\ tbx.skip = desc.skip
        /\ tbx.chroms = desc.names
        /\ Len(tbx.chroms) = Len(desc.names)

-----------------------------------------------------------------------------
(* Coordinates of the classifier and of the record built from the line.    *)

\* a well-formed line with begin and end columns, small or large coordinates,
\* and a region around them
InitRecord ==
    /\ desc \in {Handle(2, 3, z, FALSE) @@ [refalt |-> FALSE] : z \in BOOLEAN}
    /\ region \in Regions \cup
                  {[chrom |-> <<"1">>, start |-> r[1], end |-> r[2]] :
                      r \in {<<98, 99>>, <<99, 100>>, <<100, 101>>, <<150, 160>>, <<200, 201>>}}
    /\ origin \in {p \in [b : 0..2 \cup {100}, e : 0..2 \cup {100, 200},
                          named : BOOLEAN, cr : BOOLEAN] :
                      p.b <= p.e /\ (~desc.ZeroBased => p.b >= 1)}
    /\ line = ExplicitText(desc, origin)
    /\ verdict = NoVerdict
    /\ IdleIterators

\* the body of Next on the line: inBounds, then toPosition on its tokens when
\* the line is in bounds
Build ==
    /\ verdict = NoVerdict
    /\ \E r \in {inBounds(desc, region, chomp(line))} :
          /\ verdict' = r
          /\ hist' = IF r.err = ErrNil /\ r.in THEN <<toPosition(desc, r.toks)>> ELSE <<>>
    /\ UNCHANGED <<line, region, desc, origin, file, tbx, rd, its, resolved>>

SpecRecord == InitRecord /\ [][Build]_vars

\* C14: the classifier stops exactly when parsedBegin - (zeroBased ? 0 : 1)
\* is at or after the region's end, so that is the position it uses, and the
\* Interval built from an in-bounds line has that same start, the end column
\* unchanged as its end and the name column as its chrom.
C14_NormalizedCoordinates ==
    verdict # NoVerdict =>
        LET pos == origin.b - (IF desc.ZeroBased THEN 0 ELSE 1)
        IN /\ (classOf(verdict) = STOP) = (pos >= region.end)
           /\ classOf(verdict) = OVERLAP =>
                 /\ Len(hist) = 1
                 /\ hist[1].kind = "interval"
                 /\ hist[1].start = pos
                 /\ hist[1].end = origin.e
                 /\ hist[1].chrom = <<"1">>

\* C14 witness: the line 1,100,200 of a 1-based file queried with (1,150,160)
\* gave a record with start 99 and end 200
C14_Witness ==
    /\ verdict # NoVerdict
    /\ ~desc.ZeroBased
    /\ origin.b = 100 /\ origin.e = 200
    /\ region.start = 150 /\ region.end = 160
    /\ Len(hist) = 1
    /\ hist[1].kind = "interval"
    /\ hist[1].start = 99 /\ hist[1].end = 200

=============================================================================
